---------------------------- MODULE Spec2Model ----------------------------
(***************************************************************************)
(* A model of the cpp-features examples: the user lookup of example 1,     *)
(* the product pipelines of example 2, the expression evaluators of        *)
(* example 3 and the FileProcessor of example 4.  Every example is an      *)
(* independent program, so each has its own variables, its own initial     *)
(* condition and its own specification.                                    *)
(***************************************************************************)
EXTENDS Integers, Sequences, FiniteSets, TLC

VARIABLES
    users11,     \* cpp11_style::UserDatabase::users_
    users17,     \* cpp17_style::UserDatabase::users_
    users23,     \* cpp23_style::UserDatabase::users_
    outUser,     \* the caller's User object handed to cpp11 findUser
    lastCall,    \* the last lookup made: operation, arguments, result
    products,    \* example 2: the demos' local product list
    result11,    \* cpp11_style::demo's result vector
    result17,    \* cpp17_style::demo's result vector
    result20,    \* what iterating cpp20_style::demo's view yields
    top20,       \* what iterating its top_electronics view yields
    heap,        \* example 3: the Expr objects created so far, by address
    locals,      \* the Expr objects a local variable of the demo owns
    evPc,        \* where the running evaluate(expr) is
    evRoot,      \* the Expr evaluate was called on by the demo
    evCallee,    \* the Expr the innermost evaluate call is entered with
    evStack,     \* the evaluate calls waiting for their operands
    evRet,       \* the value the innermost call has just returned
    evLog,       \* the Expr objects std::visit was applied to, in order
    evResult,    \* the demo's double result
    ret11,       \* cpp11_style::evaluate's result on the same expression
    ret17,       \* cpp17_style::evaluate's result on it
    ret17Lambda, \* cpp17_style::evaluate_lambda's result on it
    processor,   \* example 4: the cpp23_style::FileProcessor that exists
    fileCall,    \* the last call made on it or to create it, and its outcome
    objects,     \* example 4: the FileProcessor each pointer of a demo holds
    freeStore,   \* the char arrays allocated so far, by address
    disk,        \* the files process() may open: their bytes, or missing
    procCall,    \* the last constructor, process() or delete, and its outcome
    serCall,     \* example 5: the last serialize call, its argument and its result
    mainRun,     \* the run of an example's main: demos completed, files present, outcome
    count,       \* performance::demo: the predicate calls counted by the lambda
    lazyPc,      \* where performance::demo is: view built, loop running, done
    lazyIt,      \* the loop's counted_iterator: the filter iterator and the count left
    lazyChecked, \* the positions the predicate was called on, in order
    lazyFound    \* the positions of the products the loop printed as found

userVars == <<users11, users17, users23, outUser, lastCall>>

prodVars == <<products, result11, result17, result20, top20>>

evalVars == <<evPc, evRoot, evCallee, evStack, evRet, evLog, evResult>>

exprVars == <<heap, locals, evalVars, ret11, ret17, ret17Lambda>>

fileVars == <<processor, fileCall>>

bufVars == <<objects, freeStore, disk, procCall>>

lazyVars == <<count, lazyPc, lazyIt, lazyChecked, lazyFound>>

vars == <<userVars, prodVars, exprVars, fileVars, bufVars, serCall, mainRun, lazyVars>>

\* What each example leaves alone: the other examples' variables.
notUserVars == <<prodVars, exprVars, fileVars, bufVars, serCall, mainRun, lazyVars>>

notProdVars == <<userVars, exprVars, fileVars, bufVars, serCall, mainRun, lazyVars>>

notExprVars == <<userVars, prodVars, fileVars, bufVars, serCall, mainRun, lazyVars>>

notFileVars == <<userVars, prodVars, exprVars, bufVars, serCall, mainRun, lazyVars>>

notBufVars == <<userVars, prodVars, exprVars, fileVars, serCall, mainRun, lazyVars>>

(***************************************************************************)
(* Example 1: error handling.                                              *)
(***************************************************************************)

\* Ids the lookups are tried on: -MaxId..MaxId and the demo's 999 and -5.
MaxId == 5

Ids == (-MaxId .. MaxId) \cup {999, -5}

\* A std::string that is read character by character is a sequence of
\* one-character strings; an email is only copied and tested for emptiness.
MkUser(id, name, email) == [id |-> id, name |-> name, email |-> email]

Alice == MkUser(1, <<"A", "l", "i", "c", "e">>, "alice@example.com")

Bob == MkUser(2, <<"B", "o", "b">>, "bob@example.com")

Charlie == MkUser(3, <<"C", "h", "a", "r", "l", "i", "e">>, "charlie@example.com")

\* A value-initialised User: what std::map::operator[] inserts.
DefaultUser == MkUser(0, <<>>, "")

\* `User user;` in a demo: the strings are empty, the int id is left
\* uninitialised and may hold any value.
UninitialisedUsers == {MkUser(id, <<>>, "") : id \in Ids}

\* The constructor: three operator[] assignments into an empty map.
UserDatabaseCtor == (1 :> Alice) @@ (2 :> Bob) @@ (3 :> Charlie)

\* std::map::find on a const map: an iterator to the entry, or end().
MapFind(users, id) ==
    IF id \in DOMAIN users THEN [end |-> FALSE, key |-> id] ELSE [end |-> TRUE]

\* What std::map::operator[] would leave behind: a default entry for a new key.
MapAfterSubscript(users, id) ==
    IF id \in DOMAIN users THEN users ELSE (id :> DefaultUser) @@ users

\* The map after a lookup through the const find: no entry is inserted.
MapAfterFind(users, id) == users

---------------------------------------------------------------------------
\* cpp11_style

\* findUser with the look-up made before the id is validated.
Cpp11FindUserLookupFirst(users, id, out_null, out_user) ==
    LET it == MapFind(users, id) IN
    IF it.end THEN [code |-> "UserNotFound", out |-> out_user]
    ELSE IF id <= 0 THEN [code |-> "InvalidId", out |-> out_user]
    ELSE [code |-> "Success", out |-> IF out_null THEN out_user ELSE users[it.key]]

\* findUser resetting the caller's object when the lookup fails.
Cpp11FindUserClearsOnError(users, id, out_null, out_user) ==
    LET cleared == IF out_null THEN out_user ELSE DefaultUser IN
    IF id <= 0 THEN [code |-> "InvalidId", out |-> cleared]
    ELSE LET it == MapFind(users, id) IN
         IF it.end THEN [code |-> "UserNotFound", out |-> cleared]
         ELSE [code |-> "Success",
               out |-> IF out_null THEN out_user ELSE users[it.key]]

\* ErrorCode findUser(int id, User* out_user) const: the code returned and
\* the caller's object afterwards (out_null: out_user == nullptr).
Cpp11FindUser(users, id, out_null, out_user) ==
    IF id <= 0 THEN [code |-> "InvalidId", out |-> out_user]
    ELSE LET it == MapFind(users, id) IN
         IF it.end THEN [code |-> "UserNotFound", out |-> out_user]
         ELSE [code |-> "Success",
               out |-> IF out_null THEN out_user ELSE users[it.key]]

\* const User* getUserPtr(int id) const: nullptr, or a pointer to the entry.
Cpp11GetUserPtr(users, id) ==
    IF id <= 0 THEN [null |-> TRUE]
    ELSE LET it == MapFind(users, id) IN
         IF ~it.end THEN [null |-> FALSE, key |-> it.key] ELSE [null |-> TRUE]

---------------------------------------------------------------------------
\* cpp17_style

\* std::optional<User> findUser(int id) const
Cpp17FindUser(users, id) ==
    IF id <= 0 THEN [has_value |-> FALSE]
    ELSE LET it == MapFind(users, id) IN
         IF it.end THEN [has_value |-> FALSE]
         ELSE [has_value |-> TRUE, value |-> users[it.key]]

\* std::optional<std::string> getUserEmail(int id) const
Cpp17GetUserEmail(users, id) ==
    LET user == Cpp17FindUser(users, id) IN
    IF user.has_value THEN [has_value |-> TRUE, value |-> user.value.email]
    ELSE [has_value |-> FALSE]

---------------------------------------------------------------------------
\* cpp23_style

\* errorMessage with the NotFound case missing from the switch.
errorMessageWithoutNotFound(error) ==
    CASE error = "InvalidId" -> "Invalid user ID"
      [] error = "DatabaseError" -> "Database error"
      [] error = "PermissionDenied" -> "Permission denied"
      [] OTHER -> "Unknown error"

\* std::string errorMessage(UserError error)
errorMessage(error) ==
    CASE error = "InvalidId" -> "Invalid user ID"
      [] error = "NotFound" -> "User not found"
      [] error = "DatabaseError" -> "Database error"
      [] error = "PermissionDenied" -> "Permission denied"
      [] OTHER -> "Unknown error"

Unexpected(e) == [has_value |-> FALSE, error |-> e]

Expected(v) == [has_value |-> TRUE, value |-> v]

\* findUser rejecting only negative ids.
Cpp23FindUserStrictlyNegative(users, id) ==
    IF id < 0 THEN Unexpected("InvalidId")
    ELSE LET it == MapFind(users, id) IN
         IF it.end THEN Unexpected("NotFound") ELSE Expected(users[it.key])

\* std::expected<User, UserError> findUser(int id) const
Cpp23FindUser(users, id) ==
    IF id <= 0 THEN Unexpected("InvalidId")
    ELSE LET it == MapFind(users, id) IN
         IF it.end THEN Unexpected("NotFound") ELSE Expected(users[it.key])

\* std::expected<std::string, UserError> getUserEmail(int id) const
Cpp23GetUserEmail(users, id) ==
    LET r == Cpp23FindUser(users, id) IN
    IF r.has_value
    THEN IF r.value.email = "" THEN Unexpected("DatabaseError")
         ELSE Expected(r.value.email)
    ELSE Unexpected(r.error)

\* std::toupper in the "C" locale, on the letters the names are made of.
LowerCase == <<"a", "b", "c", "d", "e", "f", "g", "h", "i", "j", "k", "l", "m",
               "n", "o", "p", "q", "r", "s", "t", "u", "v", "w", "x", "y", "z">>

UpperCase == <<"A", "B", "C", "D", "E", "F", "G", "H", "I", "J", "K", "L", "M",
               "N", "O", "P", "Q", "R", "S", "T", "U", "V", "W", "X", "Y", "Z">>

toupper(c) ==
    IF \E i \in DOMAIN LowerCase : LowerCase[i] = c
    THEN UpperCase[CHOOSE i \in DOMAIN LowerCase : LowerCase[i] = c]
    ELSE c

\* std::expected<std::string, UserError> getUserNameUpper(int id) const
Cpp23GetUserNameUpper(users, id) ==
    LET r == Cpp23FindUser(users, id) IN
    IF r.has_value
    THEN Expected([i \in DOMAIN r.value.name |-> toupper(r.value.name[i])])
    ELSE Unexpected(r.error)

\* std::expected<User, std::string> findUserWithMessage(int id) const
Cpp23FindUserWithMessage(users, id) ==
    LET r == Cpp23FindUser(users, id) IN
    IF r.has_value THEN r ELSE Unexpected(errorMessage(r.error))

---------------------------------------------------------------------------
\* The lookups as operations on the three databases.

Call(op, id, ret) == [op |-> op, id |-> id, ret |-> ret]

\* The three databases as constructed, and the caller's `User user;` that
\* cpp11 findUser is given.
UsersStart ==
    /\ users11 = UserDatabaseCtor
    /\ users17 = UserDatabaseCtor
    /\ users23 = UserDatabaseCtor
    /\ outUser \in UninitialisedUsers
    /\ lastCall = Call("none", 0, [has_value |-> FALSE])

UsersIdle ==
    /\ users11 = UserDatabaseCtor
    /\ users17 = UserDatabaseCtor
    /\ users23 = UserDatabaseCtor
    /\ outUser = DefaultUser
    /\ lastCall = Call("none", 0, [has_value |-> FALSE])

DoCpp11FindUser ==
    \E id \in Ids, out_null \in BOOLEAN :
        LET r == Cpp11FindUser(users11, id, out_null, outUser) IN
        /\ users11' = MapAfterFind(users11, id)
        /\ outUser' = r.out
        /\ lastCall' = [op |-> "cpp11.findUser", id |-> id, ret |-> r.code,
                        out_null |-> out_null, before |-> outUser]
        /\ UNCHANGED <<users17, users23>>
        /\ UNCHANGED notUserVars

DoCpp11GetUserPtr ==
    \E id \in Ids :
        /\ users11' = MapAfterFind(users11, id)
        /\ lastCall' = Call("cpp11.getUserPtr", id, Cpp11GetUserPtr(users11, id))
        /\ UNCHANGED <<users17, users23, outUser>>
        /\ UNCHANGED notUserVars

DoCpp17FindUser ==
    \E id \in Ids :
        /\ users17' = MapAfterFind(users17, id)
        /\ lastCall' = Call("cpp17.findUser", id, Cpp17FindUser(users17, id))
        /\ UNCHANGED <<users11, users23, outUser>>
        /\ UNCHANGED notUserVars

DoCpp17GetUserEmail ==
    \E id \in Ids :
        /\ users17' = MapAfterFind(users17, id)
        /\ lastCall' = Call("cpp17.getUserEmail", id, Cpp17GetUserEmail(users17, id))
        /\ UNCHANGED <<users11, users23, outUser>>
        /\ UNCHANGED notUserVars

DoCpp23FindUser ==
    \E id \in Ids :
        /\ users23' = MapAfterFind(users23, id)
        /\ lastCall' = Call("cpp23.findUser", id, Cpp23FindUser(users23, id))
        /\ UNCHANGED <<users11, users17, outUser>>
        /\ UNCHANGED notUserVars

DoCpp23GetUserEmail ==
    \E id \in Ids :
        /\ users23' = MapAfterFind(users23, id)
        /\ lastCall' = Call("cpp23.getUserEmail", id, Cpp23GetUserEmail(users23, id))
        /\ UNCHANGED <<users11, users17, outUser>>
        /\ UNCHANGED notUserVars

DoCpp23GetUserNameUpper ==
    \E id \in Ids :
        /\ users23' = MapAfterFind(users23, id)
        /\ lastCall' = Call("cpp23.getUserNameUpper", id,
                            Cpp23GetUserNameUpper(users23, id))
        /\ UNCHANGED <<users11, users17, outUser>>
        /\ UNCHANGED notUserVars

DoCpp23FindUserWithMessage ==
    \E id \in Ids :
        /\ users23' = MapAfterFind(users23, id)
        /\ lastCall' = Call("cpp23.findUserWithMessage", id,
                            Cpp23FindUserWithMessage(users23, id))
        /\ UNCHANGED <<users11, users17, outUser>>
        /\ UNCHANGED notUserVars

UsersNext ==
    \/ DoCpp11FindUser
    \/ DoCpp11GetUserPtr
    \/ DoCpp17FindUser
    \/ DoCpp17GetUserEmail
    \/ DoCpp23FindUser
    \/ DoCpp23GetUserEmail
    \/ DoCpp23GetUserNameUpper
    \/ DoCpp23FindUserWithMessage

(***************************************************************************)
(* Example 2: container processing.                                        *)
(***************************************************************************)

\* Prices are in cents, so 999.99 is 99999; a discounted price is in tenths
\* of a cent, so that price * 0.9 is the integer price * 9.
MkProduct(name, price, category, stock) ==
    [name |-> name, price |-> price, category |-> category, stock |-> stock]

\* std::vector<Product> getProducts()
getProducts ==
    << MkProduct("Laptop", 99999, "Electronics", 5),
       MkProduct("Mouse", 2550, "Electronics", 50),
       MkProduct("Keyboard", 7500, "Electronics", 30),
       MkProduct("Monitor", 29999, "Electronics", 15),
       MkProduct("Desk", 45000, "Furniture", 10),
       MkProduct("Chair", 19999, "Furniture", 20),
       MkProduct("Lamp", 4500, "Furniture", 40),
       MkProduct("Notebook", 599, "Stationery", 100),
       MkProduct("Pen", 250, "Stationery", 200),
       MkProduct("Coffee Mug", 1299, "Kitchen", 60) >>

\* The threshold 100.0 of the "expensive" predicate, in cents.
ExpensiveThreshold == 10000

\* p.price >= 100.0: a threshold that lets the boundary price through.
IsExpensiveInclusive(p) == p.price >= ExpensiveThreshold

\* [](const Product& p) { return p.price > 100.0; }
IsExpensive(p) == p.price > ExpensiveThreshold

\* product.price * 0.9, in tenths of a cent.
Discounted(p) == p.price * 9

\* name + " ($" + std::to_string(discounted) + ")": the pieces concatenated.
NameWithDiscount(p) == <<p.name, " ($", Discounted(p), ")">>

\* cpp11_style::demo: one loop, testing and pushing back element by element.
RECURSIVE Cpp11Loop(_, _, _)
Cpp11Loop(prods, i, result) ==
    IF i > Len(prods) THEN result
    ELSE IF IsExpensive(prods[i])
         THEN Cpp11Loop(prods, i + 1, Append(result, NameWithDiscount(prods[i])))
         ELSE Cpp11Loop(prods, i + 1, result)

Cpp11Expensive(prods) == Cpp11Loop(prods, 1, <<>>)

\* std::copy_if(first, last, back_inserter(out), pred)
RECURSIVE CopyIf(_, _, _)
CopyIf(prods, first, out) ==
    IF first > Len(prods) THEN out
    ELSE CopyIf(prods, first + 1,
                IF IsExpensive(prods[first]) THEN Append(out, prods[first]) ELSE out)

\* transform writing through an inserter at the front: the order is reversed.
RECURSIVE TransformFrontInserter(_, _, _)
TransformFrontInserter(expensive, first, out) ==
    IF first > Len(expensive) THEN out
    ELSE TransformFrontInserter(expensive, first + 1,
                                <<NameWithDiscount(expensive[first])>> \o out)

\* std::transform(first, last, back_inserter(out), op)
RECURSIVE Transform(_, _, _)
Transform(expensive, first, out) ==
    IF first > Len(expensive) THEN out
    ELSE Transform(expensive, first + 1,
                   Append(out, NameWithDiscount(expensive[first])))

\* cpp17_style::demo: copy_if into a temporary, then transform it.
Cpp17Expensive(prods) == Transform(CopyIf(prods, 1, <<>>), 1, <<>>)

\* filter_view's iterator: the first position at or after i whose element
\* satisfies the predicate, or end() (Len + 1).
RECURSIVE FilterFind(_, _)
FilterFind(prods, i) ==
    IF i > Len(prods) THEN Len(prods) + 1
    ELSE IF IsExpensive(prods[i]) THEN i
    ELSE FilterFind(prods, i + 1)

\* The range-for over filter | transform: begin(), then *it and ++it until
\* end(); transform is applied when the iterator is dereferenced.
RECURSIVE Cpp20Iterate(_, _, _)
Cpp20Iterate(prods, it, yielded) ==
    IF it = Len(prods) + 1 THEN yielded
    ELSE Cpp20Iterate(prods, FilterFind(prods, it + 1),
                      Append(yielded, NameWithDiscount(prods[it])))

\* cpp20_style::demo: the lazy filter | transform view, consumed once.
Cpp20Expensive(prods) == Cpp20Iterate(prods, FilterFind(prods, 1), <<>>)

\* cpp20_style::demo's top_electronics view, consumed once: the products
\* of category "Electronics" in list order, each as the pair of its name
\* and price * stock, the first 5 of them.
Cpp20TopElectronics(prods) ==
    LET electronics == SelectSeq(prods, LAMBDA p : p.category = "Electronics")
        pairs == [i \in 1 .. Len(electronics) |->
                     <<electronics[i].name,
                       electronics[i].price * electronics[i].stock>>]
    IN  SubSeq(pairs, 1, IF Len(pairs) < 5 THEN Len(pairs) ELSE 5)

---------------------------------------------------------------------------
\* The demos as operations on a product list.

\* The longest product list tried besides the fixed one of getProducts.
MaxProducts == 3

\* Products around the threshold: just below, exactly at, just above, and
\* well above.
SampleProducts ==
    { MkProduct(n, p, c, 5) :
        n \in {"Desk", "Lamp"}, p \in {9999, 10000, 10001}, c \in {"Furniture"} }
    \cup { MkProduct("Laptop", 99999, "Electronics", 5),
           MkProduct("Mouse", 2550, "Electronics", 50) }

ProductLists ==
    {getProducts} \cup UNION { [1 .. n -> SampleProducts] : n \in 0 .. MaxProducts }

NotRun == [done |-> FALSE]

Ran(input, out) == [done |-> TRUE, input |-> input, out |-> out]

ProductsStart ==
    /\ products \in ProductLists
    /\ result11 = NotRun
    /\ result17 = NotRun
    /\ result20 = NotRun
    /\ top20 = NotRun

ProductsIdle ==
    /\ products = <<>>
    /\ result11 = NotRun
    /\ result17 = NotRun
    /\ result20 = NotRun
    /\ top20 = NotRun

\* The loops and algorithms read the list through const references.
Cpp11Demo ==
    /\ ~result11.done
    /\ result11' = Ran(products, Cpp11Expensive(products))
    /\ UNCHANGED <<products, result17, result20, top20>>
    /\ UNCHANGED notProdVars

Cpp17Demo ==
    /\ ~result17.done
    /\ result17' = Ran(products, Cpp17Expensive(products))
    /\ UNCHANGED <<products, result11, result20, top20>>
    /\ UNCHANGED notProdVars

Cpp20Demo ==
    /\ ~result20.done
    /\ result20' = Ran(products, Cpp20Expensive(products))
    /\ top20' = Ran(products, Cpp20TopElectronics(products))
    /\ UNCHANGED <<products, result11, result17>>
    /\ UNCHANGED notProdVars

ProductsNext ==
    \/ Cpp11Demo
    \/ Cpp17Demo
    \/ Cpp20Demo

(***************************************************************************)
(* Example 3: type-safe variants.  A double is modelled by an integer: the *)
(* literals used are small whole numbers, on which double +, - and * are   *)
(* exact.                                                                  *)
(***************************************************************************)

\* Expr(double n)
Number(n) == [type |-> "Number", number |-> n]

\* Expr(Addition&&), Expr(Multiplication&&), Expr(Subtraction&&): the node
\* owns its two operands, named by their addresses in the heap.
Binary(type, left, right) == [type |-> type, left |-> left, right |-> right]

\* The alternatives of cpp11_style / cpp17_style Expr and of cpp20_style Expr.
ExprTypes17 == {"Number", "Addition", "Multiplication"}

ExprTypes20 == ExprTypes17 \cup {"Subtraction"}

\* cpp11_style::evaluate with the Addition case falling through to the
\* Multiplication case.
RECURSIVE Cpp11EvaluateFallThrough(_, _)
Cpp11EvaluateFallThrough(h, e) ==
    CASE h[e].type = "Number" -> h[e].number
      [] h[e].type \in {"Addition", "Multiplication"} ->
             Cpp11EvaluateFallThrough(h, h[e].left)
                 * Cpp11EvaluateFallThrough(h, h[e].right)
      [] OTHER -> 0

\* double cpp11_style::evaluate(const Expr& expr): a switch on the tag.
RECURSIVE Cpp11Evaluate(_, _)
Cpp11Evaluate(h, e) ==
    CASE h[e].type = "Number" -> h[e].number
      [] h[e].type = "Addition" ->
             Cpp11Evaluate(h, h[e].left) + Cpp11Evaluate(h, h[e].right)
      [] h[e].type = "Multiplication" ->
             Cpp11Evaluate(h, h[e].left) * Cpp11Evaluate(h, h[e].right)
      [] OTHER -> 0   \* return 0.0;  // Should never reach

\* double cpp17_style::evaluate(const Expr& expr): std::visit picks the
\* EvaluateVisitor overload of the alternative held.
RECURSIVE Cpp17Evaluate(_, _)
Cpp17Evaluate(h, e) ==
    LET EvaluateVisitor(alternative) ==
            CASE alternative = "Number" -> h[e].number
              [] alternative = "Addition" ->
                     Cpp17Evaluate(h, h[e].left) + Cpp17Evaluate(h, h[e].right)
              [] alternative = "Multiplication" ->
                     Cpp17Evaluate(h, h[e].left) * Cpp17Evaluate(h, h[e].right)
    IN  EvaluateVisitor(h[e].type)

\* double cpp17_style::evaluate_lambda(const Expr& expr): one generic lambda,
\* an if constexpr chain on the alternative's type.
RECURSIVE Cpp17EvaluateLambda(_, _)
Cpp17EvaluateLambda(h, e) ==
    LET val == h[e] IN
    IF val.type = "Number" THEN val.number
    ELSE IF val.type = "Addition"
         THEN Cpp17EvaluateLambda(h, val.left) + Cpp17EvaluateLambda(h, val.right)
    ELSE Cpp17EvaluateLambda(h, val.left) * Cpp17EvaluateLambda(h, val.right)

\* double cpp20_style::evaluate(const Expr& expr): std::visit over an
\* overload set of four lambdas.
RECURSIVE Cpp20Evaluate(_, _)
Cpp20Evaluate(h, e) ==
    LET overload(alternative) ==
            CASE alternative = "Number" -> h[e].number
              [] alternative = "Addition" ->
                     Cpp20Evaluate(h, h[e].left) + Cpp20Evaluate(h, h[e].right)
              [] alternative = "Multiplication" ->
                     Cpp20Evaluate(h, h[e].left) * Cpp20Evaluate(h, h[e].right)
              [] alternative = "Subtraction" ->
                     Cpp20Evaluate(h, h[e].left) - Cpp20Evaluate(h, h[e].right)
    IN  overload(h[e].type)

\* The Expr objects reachable from e, e included, with repetitions: one entry
\* per path from e.
RECURSIVE Reachable(_, _)
Reachable(h, e) ==
    IF h[e].type = "Number" THEN <<e>>
    ELSE <<e>> \o Reachable(h, h[e].left) \o Reachable(h, h[e].right)

\* Whether the tree under e uses only the alternatives of the cpp11 and
\* cpp17 Expr.
OnlyTypes17(h, e) ==
    \A i \in 1 .. Len(Reachable(h, e)) : h[Reachable(h, e)[i]].type \in ExprTypes17

---------------------------------------------------------------------------
\* Building trees: the demos' make_unique and constructor calls.

\* The largest number of Expr objects built freely.
MaxNodes == 5

\* The literals of freely built trees.
Literals == {2, 3}

\* cpp11_style::demo and cpp17_style::demo: (2 + 3) * 4.
DemoHeap11 ==
    << Number(2), Number(3), Binary("Addition", 1, 2), Number(4),
       Binary("Multiplication", 3, 4) >>

\* cpp17_style::demo, second expression: 5 + 6.
DemoHeap17Lambda == << Number(5), Number(6), Binary("Addition", 1, 2) >>

\* cpp20_style::demo: (10 - 3) * (2 + 4).
DemoHeap20 ==
    << Number(10), Number(3), Binary("Subtraction", 1, 2),
       Number(2), Number(4), Binary("Addition", 4, 5),
       Binary("Multiplication", 3, 6) >>

DemoHeaps == {DemoHeap11, DemoHeap17Lambda, DemoHeap20}

NoFrames == <<>>

ExprIdleEval ==
    /\ evPc = "idle"
    /\ evRoot = 0
    /\ evCallee = 0
    /\ evStack = NoFrames
    /\ evRet = 0
    /\ evLog = <<>>
    /\ evResult = 0
    /\ ret11 = NotRun
    /\ ret17 = NotRun
    /\ ret17Lambda = NotRun

\* Either nothing is built yet, or a demo has built its expression: the
\* last object is the local `Expr expr`, every other one is owned by it.
ExprStart ==
    /\ \/ heap = <<>> /\ locals = {}
       \/ \E h \in DemoHeaps : heap = h /\ locals = {Len(h)}
    /\ ExprIdleEval

ExprIdle ==
    /\ heap = <<>>
    /\ locals = {}
    /\ ExprIdleEval

\* auto two = std::make_unique<Expr>(2.0);
MakeNumber ==
    \E n \in Literals :
        /\ evPc = "idle"
        /\ Len(heap) < MaxNodes
        /\ heap' = Append(heap, Number(n))
        /\ locals' = locals \cup {Len(heap) + 1}
        /\ UNCHANGED <<evalVars, ret11, ret17, ret17Lambda>>
        /\ UNCHANGED notExprVars

\* auto add = std::make_unique<Expr>(Addition{std::move(two), std::move(three)});
\* the two locals moved from are null afterwards and own nothing.
MakeBinary ==
    \E type \in ExprTypes20 \ {"Number"}, l \in locals, r \in locals :
        /\ evPc = "idle"
        /\ Len(heap) < MaxNodes
        /\ l # r
        /\ heap' = Append(heap, Binary(type, l, r))
        /\ locals' = (locals \ {l, r}) \cup {Len(heap) + 1}
        /\ UNCHANGED <<evalVars, ret11, ret17, ret17Lambda>>
        /\ UNCHANGED notExprVars

---------------------------------------------------------------------------
\* cpp20_style::evaluate, call by call.

\* A suspended evaluate call on a binary node: which operands it has, and
\* the one it is waiting for.
Frame(e) ==
    [node |-> e, hasLeft |-> FALSE, hasRight |-> FALSE,
     left |-> 0, right |-> 0, waiting |-> "none"]

\* Both operand calls going to the left operand.
OperandAlwaysLeft(node, side) == node.left

\* *add.left, *add.right: the operand a lambda's recursive call is given.
Operand(node, side) == IF side = "left" THEN node.left ELSE node.right

\* The operands a suspended call has still to evaluate.
Unevaluated(f) ==
    (IF f.hasLeft THEN {} ELSE {"left"}) \cup (IF f.hasRight THEN {} ELSE {"right"})

\* The subtraction taken the wrong way round.
ApplyReversedSubtraction(type, l, r) ==
    CASE type = "Addition" -> l + r
      [] type = "Multiplication" -> l * r
      [] type = "Subtraction" -> r - l

\* The arithmetic of the three binary lambdas.
Apply(type, l, r) ==
    CASE type = "Addition" -> l + r
      [] type = "Multiplication" -> l * r
      [] type = "Subtraction" -> l - r

Top(stack) == stack[Len(stack)]

Pop(stack) == SubSeq(stack, 1, Len(stack) - 1)

ReplaceTop(stack, f) == [stack EXCEPT ![Len(stack)] = f]

\* double result = evaluate(expr): the demo calls it once every operand
\* has been moved into expr, the one object a local still owns.
EvaluateCall ==
    \E root \in locals :
        /\ evPc = "idle"
        /\ locals = {root}
        /\ evPc' = "call"
        /\ evRoot' = root
        /\ evCallee' = root
        /\ UNCHANGED <<heap, locals, evStack, evRet, evLog, evResult, ret11, ret17, ret17Lambda>>
        /\ UNCHANGED notExprVars

\* std::visit on the callee's variant: the Number lambda returns at once,
\* a binary lambda starts on its operands.
EvaluateVisit ==
    /\ evPc = "call"
    /\ evLog' = Append(evLog, evCallee)
    /\ IF heap[evCallee].type = "Number"
       THEN /\ evRet' = heap[evCallee].number
            /\ evPc' = "return"
            /\ UNCHANGED evStack
       ELSE /\ evStack' = Append(evStack, Frame(evCallee))
            /\ evPc' = "operands"
            /\ UNCHANGED evRet
    /\ UNCHANGED <<heap, locals, evRoot, evCallee, evResult, ret11, ret17, ret17Lambda>>
    /\ UNCHANGED notExprVars

\* evaluate(*add.left) + evaluate(*add.right): the two calls are
\* unsequenced, either may be made first.
EvaluateOperand ==
    /\ evPc = "operands"
    /\ \E side \in Unevaluated(Top(evStack)) :
           /\ evCallee' = Operand(heap[Top(evStack).node], side)
           /\ evStack' = ReplaceTop(evStack, [Top(evStack) EXCEPT !.waiting = side])
    /\ evPc' = "call"
    /\ UNCHANGED <<heap, locals, evRoot, evRet, evLog, evResult, ret11, ret17, ret17Lambda>>
    /\ UNCHANGED notExprVars

\* Both operands are there: the lambda computes and returns.
EvaluateCombine ==
    /\ evPc = "operands"
    /\ Unevaluated(Top(evStack)) = {}
    /\ evRet' = Apply(heap[Top(evStack).node].type,
                      Top(evStack).left, Top(evStack).right)
    /\ evStack' = Pop(evStack)
    /\ evPc' = "return"
    /\ UNCHANGED <<heap, locals, evRoot, evCallee, evLog, evResult, ret11, ret17, ret17Lambda>>
    /\ UNCHANGED notExprVars

\* A call returns: to the lambda waiting for it, or to the demo.
EvaluateReturn ==
    /\ evPc = "return"
    /\ IF evStack = NoFrames
       THEN /\ evResult' = evRet
            /\ evPc' = "done"
            /\ UNCHANGED evStack
       ELSE /\ evStack' = ReplaceTop(evStack,
                  IF Top(evStack).waiting = "left"
                  THEN [Top(evStack) EXCEPT !.hasLeft = TRUE, !.left = evRet,
                                            !.waiting = "none"]
                  ELSE [Top(evStack) EXCEPT !.hasRight = TRUE, !.right = evRet,
                                            !.waiting = "none"])
            /\ evPc' = "operands"
            /\ UNCHANGED evResult
    /\ UNCHANGED <<heap, locals, evRoot, evCallee, evRet, evLog, ret11, ret17, ret17Lambda>>
    /\ UNCHANGED notExprVars

Returned(value) == [done |-> TRUE, value |-> value]

\* The same expression, as the cpp11 and cpp17 Expr types can hold it, given
\* to the other three evaluators.
Cpp11EvaluateCall ==
    /\ evPc = "done"
    /\ OnlyTypes17(heap, evRoot)
    /\ ~ret11.done
    /\ ret11' = Returned(Cpp11Evaluate(heap, evRoot))
    /\ UNCHANGED <<heap, locals, evalVars, ret17, ret17Lambda>>
    /\ UNCHANGED notExprVars

Cpp17EvaluateCall ==
    /\ evPc = "done"
    /\ OnlyTypes17(heap, evRoot)
    /\ ~ret17.done
    /\ ret17' = Returned(Cpp17Evaluate(heap, evRoot))
    /\ UNCHANGED <<heap, locals, evalVars, ret11, ret17Lambda>>
    /\ UNCHANGED notExprVars

Cpp17EvaluateLambdaCall ==
    /\ evPc = "done"
    /\ OnlyTypes17(heap, evRoot)
    /\ ~ret17Lambda.done
    /\ ret17Lambda' = Returned(Cpp17EvaluateLambda(heap, evRoot))
    /\ UNCHANGED <<heap, locals, evalVars, ret11, ret17>>
    /\ UNCHANGED notExprVars

EvaluateStep ==
    \/ EvaluateVisit
    \/ EvaluateOperand
    \/ EvaluateCombine
    \/ EvaluateReturn

ExprNext ==
    \/ MakeNumber
    \/ MakeBinary
    \/ EvaluateCall
    \/ EvaluateStep
    \/ Cpp11EvaluateCall
    \/ Cpp17EvaluateCall
    \/ Cpp17EvaluateLambdaCall

(***************************************************************************)
(* Example 4: resource management, cpp23_style.                            *)
(***************************************************************************)

\* size_t is SizeBits wide: its values are 0 .. SizeMax, and its arithmetic
\* is modulo 2^SizeBits.
SizeBits == 3

SizeModulus == 2 ^ SizeBits

SizeMax == SizeModulus - 1

SizeT == 0 .. SizeMax

\* offset + length on size_t operands.
SizeAdd(a, b) == (a + b) % SizeModulus

\* The file names tried: the empty one and the demo's two.
Filenames == {"", "data.txt", "file.txt"}

\* What operator new does: it returns storage or throws std::bad_alloc.
AllocOutcomes == {"ok", "bad_alloc"}

Throws(type, what) == [threw |-> TRUE, type |-> type, what |-> what]

\* what() of std::bad_alloc (the text is the implementation's).
BadAlloc == Throws("bad_alloc", "std::bad_alloc")

Constructed(object) == [threw |-> FALSE, object |-> object]

\* The constructor testing the file name before the buffer size.
FileProcessorCtorNameFirst(filename, buffer_size, buffer_alloc) ==
    IF buffer_alloc = "bad_alloc" THEN BadAlloc
    ELSE IF filename = ""
         THEN Throws("invalid_argument", "Filename cannot be empty")
    ELSE IF buffer_size = 0
         THEN Throws("invalid_argument", "Buffer size must be > 0")
    ELSE Constructed([size_ |-> buffer_size, filename_ |-> filename])

\* FileProcessor(const std::string& filename, size_t buffer_size): the
\* buffer is allocated by the member initialiser, before the checks.
FileProcessorCtor(filename, buffer_size, buffer_alloc) ==
    IF buffer_alloc = "bad_alloc" THEN BadAlloc
    ELSE IF buffer_size = 0
         THEN Throws("invalid_argument", "Buffer size must be > 0")
    ELSE IF filename = ""
         THEN Throws("invalid_argument", "Filename cannot be empty")
    ELSE Constructed([size_ |-> buffer_size, filename_ |-> filename])

\* size_t getSize() const
getSize(p) == p.size_

\* std::make_unique<FileProcessor>(filename, size): storage for the object,
\* then the constructor.
MakeUniqueFileProcessor(filename, size, object_alloc, buffer_alloc) ==
    IF object_alloc = "bad_alloc" THEN BadAlloc
    ELSE FileProcessorCtor(filename, size, buffer_alloc)

\* createProcessor testing the size before the file name.
createProcessorSizeFirst(filename, size, object_alloc, buffer_alloc) ==
    IF size = 0 THEN Unexpected("Size must be greater than 0")
    ELSE IF filename = "" THEN Unexpected("Filename cannot be empty")
    ELSE LET made == MakeUniqueFileProcessor(filename, size, object_alloc,
                                             buffer_alloc)
         IN  IF made.threw THEN Unexpected("Failed to create: " \o made.what)
             ELSE Expected(made.object)

\* std::expected<std::unique_ptr<FileProcessor>, std::string>
\* createProcessor(const std::string& filename, size_t size)
createProcessor(filename, size, object_alloc, buffer_alloc) ==
    IF filename = "" THEN Unexpected("Filename cannot be empty")
    ELSE IF size = 0 THEN Unexpected("Size must be greater than 0")
    ELSE LET made == MakeUniqueFileProcessor(filename, size, object_alloc,
                                             buffer_alloc)
         IN  \* catch (const std::exception& e)
             IF made.threw THEN Unexpected("Failed to create: " \o made.what)
             ELSE Expected(made.object)

\* std::span<char>(buffer_.get() + offset, length)
Span(offset, length) == [threw |-> FALSE, first |-> offset, size |-> length]

\* std::span<char> getSubBuffer(size_t offset, size_t length)
getSubBuffer(p, offset, length) ==
    IF offset >= p.size_ \/ SizeAdd(offset, length) > p.size_
    THEN Throws("out_of_range", "Invalid buffer range")
    ELSE Span(offset, length)

---------------------------------------------------------------------------
\* The calls of example 4.

NoProcessor == [exists |-> FALSE]

Processor(object) == [exists |-> TRUE, object |-> object]

NoFileCall == [op |-> "none"]

FileStart ==
    /\ processor = NoProcessor
    /\ fileCall = NoFileCall

FileIdle == FileStart

\* auto result = createProcessor("data.txt", 1024): the unique_ptr in a
\* successful result owns the new processor; an earlier result is replaced.
CreateProcessor ==
    \E filename \in Filenames, size \in SizeT,
       object_alloc \in AllocOutcomes, buffer_alloc \in AllocOutcomes :
        LET ret == createProcessor(filename, size, object_alloc, buffer_alloc) IN
        /\ processor' = IF ret.has_value THEN Processor(ret.value) ELSE NoProcessor
        /\ fileCall' = [op |-> "createProcessor", filename |-> filename,
                        size |-> size, ret |-> ret,
                        alloc_failed |-> "bad_alloc" \in {object_alloc, buffer_alloc}]
        /\ UNCHANGED notFileVars

\* A call of getSubBuffer on the processor; it changes no member.
GetSubBuffer ==
    \E offset \in SizeT, length \in SizeT :
        /\ processor.exists
        /\ fileCall' = [op |-> "getSubBuffer", offset |-> offset, length |-> length,
                        ret |-> getSubBuffer(processor.object, offset, length)]
        /\ UNCHANGED processor
        /\ UNCHANGED notFileVars

\* FileProcessor(filename, buffer_size) called on its own: the object
\* exists only when the constructor returns; when it throws, the processor
\* at hand is the one there was.
ConstructProcessor ==
    \E filename \in Filenames, buffer_size \in SizeT,
       buffer_alloc \in AllocOutcomes :
        LET made == FileProcessorCtor(filename, buffer_size, buffer_alloc) IN
        /\ processor' = IF made.threw THEN processor ELSE Processor(made.object)
        /\ fileCall' = [op |-> "FileProcessor", filename |-> filename,
                        size |-> buffer_size, ret |-> made,
                        alloc_failed |-> buffer_alloc = "bad_alloc"]
        /\ UNCHANGED notFileVars

FileNext ==
    \/ CreateProcessor
    \/ ConstructProcessor
    \/ GetSubBuffer

---------------------------------------------------------------------------
\* Example 4: the buffer of a FileProcessor, from new to delete.

\* The buffer sizes tried are 0 .. MaxBuffer, the files hold 0 .. MaxFileLen
\* bytes: a file can be shorter than, as long as, or longer than a buffer.
MaxBuffer == 2

MaxFileLen == 3

\* At most MaxArrays char arrays are allocated in a run.
MaxArrays == 2

\* The pointers that hold a FileProcessor: the two of cpp11_style's
\* DataManager, and the unique_ptr of cpp23_style::createProcessor's result.
Cpp11Pointers == {"processor1_", "processor2_"}

Pointers == Cpp11Pointers \cup {"result"}

\* A file that is on the disk holds the bytes "x"; one that cannot be
\* opened is Missing.
FileBytes(n) == [i \in 1 .. n |-> "x"]

Missing == <<"missing">>

\* The file every demo processes.
DiskNames == {"data.txt"}

\* new char[n]: n chars of indeterminate value ("?"), at a new address.
NewCharArray(st, n) ==
    Append(st, [size |-> n, chars |-> [i \in 1 .. n |-> "?"], deleted |-> 0])

\* std::make_unique<char[]>(n): n value-initialised chars ("0").
MakeUniqueCharArray(st, n) ==
    Append(st, [size |-> n, chars |-> [i \in 1 .. n |-> "0"], deleted |-> 0])

\* A destructor that leaves the array allocated.
DeleteArrayForgotten(st, buffer_) == st

\* delete[] buffer_
DeleteArray(st, buffer_) == [st EXCEPT ![buffer_].deleted = @ + 1]

\* file.read reading up to the end of the file whatever n is.
IfstreamReadWholeFile(bytes, chars, n) ==
    [i \in 1 .. Len(bytes) |-> bytes[i]]

\* file.read(buffer_, size_): the first n bytes of the file, or all of them
\* when it holds fewer, go to the front of the array; the rest of the array
\* keeps what it held.
IfstreamRead(bytes, chars, n) ==
    [i \in 1 .. Len(chars) |->
        IF i <= n /\ i <= Len(bytes) THEN bytes[i] ELSE chars[i]]

\* cpp11_style::FileProcessor::process(): the value returned and the free
\* store afterwards.
Cpp11Process(p, st, d) ==
    IF d[p.filename_] = Missing THEN [ret |-> FALSE, store |-> st]
    ELSE [ret |-> TRUE,
          store |-> [st EXCEPT ![p.buffer_].chars =
                        IfstreamRead(d[p.filename_], @, p.size_)]]

\* cpp23_style::FileProcessor::process()
Cpp23Process(p, st, d) ==
    IF d[p.filename_] = Missing THEN [ret |-> FALSE, store |-> st]
    ELSE [ret |-> TRUE,
          store |-> [st EXCEPT ![p.buffer_].chars =
                        IfstreamRead(d[p.filename_], @, p.size_)]]

NoObject == [state |-> "none"]

BufStart ==
    /\ objects = [o \in Pointers |-> NoObject]
    /\ freeStore = <<>>
    /\ disk \in [DiskNames -> {Missing} \cup {FileBytes(n) : n \in 0 .. MaxFileLen}]
    /\ procCall = NoFileCall

BufIdle ==
    /\ objects = [o \in Pointers |-> NoObject]
    /\ freeStore = <<>>
    /\ disk = [f \in DiskNames |-> Missing]
    /\ procCall = NoFileCall

\* processor = new FileProcessor(filename, buffer_size) of cpp11_style:
\* when new char[size_] throws, no object and no array exist; otherwise
\* the object holds the address of its own new array.
Cpp11New ==
    \E o \in Cpp11Pointers, filename \in DiskNames,
       buffer_size \in 0 .. MaxBuffer, buffer_alloc \in AllocOutcomes :
        /\ objects[o] = NoObject
        /\ Len(freeStore) < MaxArrays
        /\ IF buffer_alloc = "bad_alloc"
           THEN UNCHANGED <<objects, freeStore>>
           ELSE /\ freeStore' = NewCharArray(freeStore, buffer_size)
                /\ objects' = [objects EXCEPT ![o] =
                       [state |-> "alive", style |-> "cpp11",
                        buffer_ |-> Len(freeStore) + 1,
                        size_ |-> buffer_size, filename_ |-> filename]]
        /\ procCall' = [op |-> "new", object |-> o, size |-> buffer_size,
                        threw |-> buffer_alloc = "bad_alloc"]
        /\ UNCHANGED disk
        /\ UNCHANGED notBufVars

\* std::make_unique<FileProcessor>(filename, size) of cpp23_style: the
\* array allocated by the member initialiser is deleted again by buffer_'s
\* destructor when the constructor body throws.
Cpp23New ==
    \E filename \in DiskNames \cup {""}, buffer_size \in 0 .. MaxBuffer,
       buffer_alloc \in AllocOutcomes :
        LET made == FileProcessorCtor(filename, buffer_size, buffer_alloc)
            allocated == MakeUniqueCharArray(freeStore, buffer_size)
        IN  /\ objects["result"] = NoObject
            /\ Len(freeStore) < MaxArrays
            /\ freeStore' =
                   IF buffer_alloc = "bad_alloc" THEN freeStore
                   ELSE IF made.threw THEN DeleteArray(allocated, Len(allocated))
                   ELSE allocated
            /\ objects' =
                   IF made.threw THEN objects
                   ELSE [objects EXCEPT !["result"] =
                            [state |-> "alive", style |-> "cpp23",
                             buffer_ |-> Len(allocated),
                             size_ |-> getSize(made.object),
                             filename_ |-> made.object.filename_]]
            /\ procCall' = [op |-> "new", object |-> "result",
                            size |-> buffer_size, threw |-> made.threw]
            /\ UNCHANGED disk
            /\ UNCHANGED notBufVars

\* processor->process() on a FileProcessor that exists.
ProcessCall ==
    \E o \in Pointers :
        LET p == objects[o]
            done == IF p.style = "cpp11" THEN Cpp11Process(p, freeStore, disk)
                    ELSE Cpp23Process(p, freeStore, disk)
        IN  /\ p.state = "alive"
            /\ freeStore' = done.store
            /\ procCall' = [op |-> "process", object |-> o, ret |-> done.ret,
                            before |-> freeStore[p.buffer_].chars,
                            size_before |-> getSize(p)]
            /\ UNCHANGED <<objects, disk>>
            /\ UNCHANGED notBufVars

\* delete processor, or the unique_ptr going out of scope: the destructor
\* runs delete[] buffer_ and the object is gone.
DeleteProcessor ==
    \E o \in Pointers :
        /\ objects[o].state = "alive"
        /\ freeStore' = DeleteArray(freeStore, objects[o].buffer_)
        /\ objects' = [objects EXCEPT ![o].state = "destroyed"]
        /\ procCall' = [op |-> "delete", object |-> o]
        /\ UNCHANGED disk
        /\ UNCHANGED notBufVars

BufNext ==
    \/ Cpp11New
    \/ Cpp23New
    \/ ProcessCall
    \/ DeleteProcessor

(***************************************************************************)
(* Example 5: serialization by compile-time dispatch.  A std::string is    *)
(* the sequence of its chars; a double is its value in millionths.         *)
(***************************************************************************)

\* std::is_fundamental<T>
is_fundamental(T) == T \in {"int", "double"}

\* has_serialize<T>, HasSerializeMethod<T>: T has a member serialize()
\* returning std::string.
has_serialize(T) == T = "Person"

\* Container<T>: T has value_type, begin(), end() and size(); std::string
\* has them all.
Container(T) == T \in {"std::string", "std::vector<int>"}

\* The cpp11 overloads whose enable_if condition holds for an argument of
\* type T; the vector overload deduces its T from the element type.
Cpp11Viable(T) ==
    LET value_type == [V \in {"std::vector<int>"} |-> "int"] IN
    {o \in {"fundamental", "string", "method", "vector"} :
        CASE o = "fundamental" -> is_fundamental(T)
          [] o = "string" -> T = "std::string"
          [] o = "method" -> has_serialize(T) /\ ~is_fundamental(T)
          [] o = "vector" ->
                /\ T \in DOMAIN value_type
                /\ ~is_fundamental(value_type[T])
                /\ value_type[T] # "std::string"
                /\ ~has_serialize(value_type[T])}

\* cpp17: the vector overload is the more specialised template for a
\* vector argument; any other argument goes to the first if constexpr
\* branch whose condition holds.
Cpp17Viable(T) ==
    IF T = "std::vector<int>" THEN {"vector"}
    ELSE IF is_fundamental(T) THEN {"fundamental"}
    ELSE IF T = "std::string" THEN {"string"}
    ELSE {"method"}

\* The cpp20 overloads whose concept T satisfies; no concept subsumes
\* another, so two of them are two equally good candidates.
Cpp20Viable(T) ==
    {o \in {"Fundamental", "StringLike", "HasSerializeMethod", "Container"} :
        CASE o = "Fundamental" -> is_fundamental(T)
          [] o = "StringLike" -> T \in {"std::string", "std::string_view"}
          [] o = "HasSerializeMethod" -> has_serialize(T)
          [] o = "Container" -> Container(T)}

\* A call that compiles returns a string; one with no viable overload, or
\* with two equally good ones, is ill-formed: the program does not build.
Text(t) == [ok |-> TRUE, text |-> t]

IllFormed == [ok |-> FALSE]

\* operator+ on the strings of a return statement, left to right.
Concat(parts) ==
    LET RECURSIVE Cat(_)
        Cat(i) == IF i = 0 THEN <<>> ELSE Cat(i - 1) \o parts[i].text
    IN  IF \A i \in DOMAIN parts : parts[i].ok THEN Text(Cat(Len(parts)))
        ELSE IllFormed

\* std::to_string(value): "%d" for an int, "%f" for a double.
to_string(v) ==
    LET Digit(d) == <<"0", "1", "2", "3", "4", "5", "6", "7", "8", "9">>[d + 1]
        RECURSIVE Decimal(_)
        Decimal(n) == IF n < 10 THEN <<Digit(n)>>
                      ELSE Decimal(n \div 10) \o <<Digit(n % 10)>>
        value == IF v.type = "int" THEN v.number ELSE v.millionths
        abs == IF value < 0 THEN -value ELSE value
        sign == IF value < 0 THEN <<"-">> ELSE <<>>
    IN  IF v.type = "int" THEN sign \o Decimal(abs)
        ELSE sign \o Decimal(abs \div 1000000) \o <<".">>
                  \o [i \in 1 .. 6 |-> Digit((abs \div (10 ^ (6 - i))) % 10)]

RECURSIVE Cpp11Serialize(_)
\* cpp11_style::serialize(value), Person::serialize() included.
Cpp11Serialize(v) ==
    LET int(n) == [type |-> "int", number |-> n]
        string(s) == [type |-> "std::string", chars |-> s]
        viable == Cpp11Viable(v.type)
        RECURSIVE Loop(_, _)
        \* for (size_t i = 0; i < vec.size(); ++i)
        Loop(i, result) ==
            IF i < Len(v.value)
            THEN Loop(i + 1,
                      Concat(<<IF i > 0 THEN Concat(<<result, Text(<<",", " ">>)>>)
                               ELSE result,
                               Cpp11Serialize(int(v.value[i + 1]))>>))
            ELSE result
    IN  IF Cardinality(viable) # 1 THEN IllFormed
        ELSE CASE viable = {"fundamental"} -> Text(to_string(v))
               [] viable = {"string"} ->
                      Concat(<<Text(<<"\"">>), Text(v.chars), Text(<<"\"">>)>>)
               [] viable = {"method"} ->
                      Concat(<<Text(<<"{", "n", "a", "m", "e", ":", " ">>),
                               Cpp11Serialize(string(v.name)),
                               Text(<<",", " ", "a", "g", "e", ":", " ">>),
                               Cpp11Serialize(int(v.age)), Text(<<"}">>)>>)
               [] viable = {"vector"} ->
                      Concat(<<Loop(0, Text(<<"[">>)), Text(<<"]">>)>>)

RECURSIVE Cpp17Serialize(_)
\* serialize leaving ", " after every element of a vector.
Cpp17SerializeTrailingSeparator(v) ==
    LET int(n) == [type |-> "int", number |-> n]
        string(s) == [type |-> "std::string", chars |-> s]
        branch == Cpp17Viable(v.type)
        RECURSIVE Loop(_, _)
        Loop(i, result) ==
            IF i < Len(v.value)
            THEN Loop(i + 1,
                      Concat(<<result, Cpp17Serialize(int(v.value[i + 1])),
                               Text(<<",", " ">>)>>))
            ELSE result
    IN  CASE branch = {"fundamental"} -> Text(to_string(v))
          [] branch = {"string"} ->
                 Concat(<<Text(<<"\"">>), Text(v.chars), Text(<<"\"">>)>>)
          [] branch = {"method"} ->
                 Concat(<<Text(<<"{", "n", "a", "m", "e", ":", " ">>),
                          Cpp17Serialize(string(v.name)),
                          Text(<<",", " ", "a", "g", "e", ":", " ">>),
                          Cpp17Serialize(int(v.age)), Text(<<"}">>)>>)
          [] branch = {"vector"} ->
                 Concat(<<Loop(0, Text(<<"[">>)), Text(<<"]">>)>>)

\* cpp17_style::serialize(value), Person::serialize() included.
Cpp17Serialize(v) ==
    LET int(n) == [type |-> "int", number |-> n]
        string(s) == [type |-> "std::string", chars |-> s]
        branch == Cpp17Viable(v.type)
        RECURSIVE Loop(_, _)
        \* for (size_t i = 0; i < vec.size(); ++i)
        Loop(i, result) ==
            IF i < Len(v.value)
            THEN Loop(i + 1,
                      Concat(<<IF i > 0 THEN Concat(<<result, Text(<<",", " ">>)>>)
                               ELSE result,
                               Cpp17Serialize(int(v.value[i + 1]))>>))
            ELSE result
    IN  CASE branch = {"fundamental"} -> Text(to_string(v))
          [] branch = {"string"} ->
                 Concat(<<Text(<<"\"">>), Text(v.chars), Text(<<"\"">>)>>)
          [] branch = {"method"} ->
                 Concat(<<Text(<<"{", "n", "a", "m", "e", ":", " ">>),
                          Cpp17Serialize(string(v.name)),
                          Text(<<",", " ", "a", "g", "e", ":", " ">>),
                          Cpp17Serialize(int(v.age)), Text(<<"}">>)>>)
          [] branch = {"vector"} ->
                 Concat(<<Loop(0, Text(<<"[">>)), Text(<<"]">>)>>)

RECURSIVE Cpp20Serialize(_)
\* cpp20_style::serialize(value), Person::serialize() included.
Cpp20Serialize(v) ==
    LET int(n) == [type |-> "int", number |-> n]
        string(s) == [type |-> "std::string", chars |-> s]
        viable == Cpp20Viable(v.type)
        RECURSIVE Loop(_, _, _)
        \* for (const auto& item : container), from the i-th item on
        Loop(i, first, result) ==
            IF i <= Len(v.value)
            THEN Loop(i + 1, FALSE,
                      Concat(<<IF ~first THEN Concat(<<result, Text(<<",", " ">>)>>)
                               ELSE result,
                               Cpp20Serialize(int(v.value[i]))>>))
            ELSE result
    IN  IF Cardinality(viable) # 1 THEN IllFormed
        ELSE CASE viable = {"Fundamental"} -> Text(to_string(v))
               [] viable = {"StringLike"} ->
                      Concat(<<Text(<<"\"">>), Text(v.chars), Text(<<"\"">>)>>)
               [] viable = {"HasSerializeMethod"} ->
                      Concat(<<Text(<<"{", "n", "a", "m", "e", ":", " ">>),
                               Cpp20Serialize(string(v.name)),
                               Text(<<",", " ", "a", "g", "e", ":", " ">>),
                               Cpp20Serialize(int(v.age)), Text(<<"}">>)>>)
               [] viable = {"Container"} ->
                      Concat(<<Loop(1, TRUE, Text(<<"[">>)), Text(<<"]">>)>>)

---------------------------------------------------------------------------
\* The calls of example 5.

\* The vectors tried hold up to MaxVec ints.
MaxVec == 3

\* No serialize call has been made.
SerIdle == serCall = [style |-> "none"]

\* std::cout << serialize(value) in the demo of one of the three styles,
\* on ints, doubles (3.14 and -0.5), strings (one of them holding a double
\* quote), Persons and vectors of ints.
SerializeCall ==
    LET ints == {0, 7, 42, -5, 100}
        strings == {<<>>, <<"h", "i">>, <<"a", "\"", "b">>}
        values ==
            {[type |-> "int", number |-> n] : n \in ints}
            \cup {[type |-> "double", millionths |-> m] : m \in {3140000, -500000}}
            \cup {[type |-> "std::string", chars |-> s] : s \in strings}
            \cup {[type |-> "Person", name |-> s, age |-> n] :
                     s \in strings, n \in {30, 7}}
            \cup {[type |-> "std::vector<int>", value |-> q] :
                     q \in UNION {[1 .. n -> {1, 20, 300}] : n \in 0 .. MaxVec}}
    IN
    \E style \in {"cpp11", "cpp17", "cpp20"}, v \in values :
        /\ serCall' =
               [style |-> style, value |-> v,
                viable |-> CASE style = "cpp11" -> Cpp11Viable(v.type)
                             [] style = "cpp17" -> Cpp17Viable(v.type)
                             [] style = "cpp20" -> Cpp20Viable(v.type),
                ret |-> CASE style = "cpp11" -> Cpp11Serialize(v)
                          [] style = "cpp17" -> Cpp17Serialize(v)
                          [] style = "cpp20" -> Cpp20Serialize(v)]
        /\ UNCHANGED <<userVars, prodVars, exprVars, fileVars, bufVars, mainRun, lazyVars>>

(***************************************************************************)
(* The main functions: each calls its demos one after the other and        *)
(* returns 0.                                                               *)
(***************************************************************************)

\* A main that calls one demo only.
MainDemosLastOnly ==
    [example \in {"example1", "example2", "example3", "example4"} |->
        <<[name |-> "comparison_demo", allocates |-> FALSE, processes |-> FALSE]>>]

\* The demos each main calls, in the order of its statements.  A demo
\* allocates when it runs new, make_unique, make_shared or builds a
\* container or a UserDatabase outside any try block: an allocation that
\* throws leaves the demo and main.  A demo processes when it calls
\* process() on a FileProcessor of "data.txt".
MainDemos ==
    LET Demo(name, allocates, processes) ==
            [name |-> name, allocates |-> allocates, processes |-> processes]
    IN  [example1 |-> <<Demo("cpp11_style::demo", TRUE, FALSE),
                        Demo("cpp17_style::demo", TRUE, FALSE),
                        Demo("cpp23_style::demo", TRUE, FALSE),
                        Demo("comparison_demo", TRUE, FALSE)>>,
         example2 |-> <<Demo("cpp11_style::demo", TRUE, FALSE),
                        Demo("cpp17_style::demo", TRUE, FALSE),
                        Demo("cpp20_style::demo", TRUE, FALSE),
                        Demo("cpp23_style::demo", TRUE, FALSE),
                        Demo("performance::demo", TRUE, FALSE)>>,
         example3 |-> <<Demo("cpp11_style::demo", TRUE, FALSE),
                        Demo("cpp17_style::demo", TRUE, FALSE),
                        Demo("cpp20_style::demo", TRUE, FALSE),
                        Demo("cpp26_style::demo", FALSE, FALSE),
                        Demo("comparison_demo", FALSE, FALSE)>>,
         example4 |-> <<Demo("cpp11_style::demo", TRUE, TRUE),
                        Demo("cpp14_style::demo", TRUE, TRUE),
                        Demo("cpp20_style::demo", TRUE, TRUE),
                        Demo("cpp23_style::demo", TRUE, TRUE),
                        Demo("exception_safety_demo", FALSE, FALSE),
                        Demo("performance_demo", FALSE, FALSE)>>]

\* No main has been started.
MainIdle == mainRun = [status |-> "idle"]

\* An example is started in a directory holding some of the three files
\* the demos of example 4 name.
StartMain ==
    \E example \in DOMAIN MainDemos,
       files \in SUBSET {"data.txt", "shared.txt", "move.txt"} :
        /\ mainRun.status = "idle"
        /\ mainRun' = [status |-> "running", example |-> example,
                       files |-> files, done |-> <<>>, opened |-> {}]
        /\ UNCHANGED <<userVars, prodVars, exprVars, fileVars, bufVars, serCall, lazyVars>>

\* The next demo call of main: the demo runs to its end, opening data.txt
\* when it processes and the file is there, or one of its allocations
\* throws std::bad_alloc, which nothing catches: the program is terminated.
RunDemo ==
    \E alloc \in AllocOutcomes :
        /\ mainRun.status = "running"
        /\ Len(mainRun.done) < Len(MainDemos[mainRun.example])
        /\ LET demo == MainDemos[mainRun.example][Len(mainRun.done) + 1] IN
           mainRun' =
               IF demo.allocates /\ alloc = "bad_alloc"
               THEN [mainRun EXCEPT !.status = "terminated"]
               ELSE [mainRun EXCEPT
                        !.done = Append(@, demo.name),
                        !.opened = IF demo.processes
                                   THEN @ \cup ({"data.txt"} \cap mainRun.files)
                                   ELSE @]
        /\ UNCHANGED <<userVars, prodVars, exprVars, fileVars, bufVars, serCall, lazyVars>>

\* return 0, after the last demo.
ReturnMain ==
    /\ mainRun.status = "running"
    /\ Len(mainRun.done) = Len(MainDemos[mainRun.example])
    /\ mainRun' = [status |-> "returned", example |-> mainRun.example,
                   files |-> mainRun.files, done |-> mainRun.done,
                   opened |-> mainRun.opened, code |-> 0]
    /\ UNCHANGED <<userVars, prodVars, exprVars, fileVars, bufVars, serCall, lazyVars>>

(***************************************************************************)
(* Example 2, performance::demo: the lazy view filter | take(3) and the    *)
(* loop that consumes it.                                                  *)
(***************************************************************************)

\* std::views::take(3)
TakeCount == 3

\* performance::demo has not been entered.
LazyIdle ==
    /\ count = 0
    /\ lazyPc = "start"
    /\ lazyIt = [current |-> 0, length |-> 0]
    /\ lazyChecked = <<>>
    /\ lazyFound = <<>>

\* A view whose construction runs the predicate on every product.
BuildViewEager ==
    /\ lazyPc = "start"
    /\ lazyPc' = "built"
    /\ count' = Len(products)
    /\ UNCHANGED <<lazyIt, lazyChecked, lazyFound>>
    /\ UNCHANGED <<userVars, prodVars, exprVars, fileVars, bufVars, serCall, mainRun>>

\* int count = 0; auto lazy_view = products | filter(...) | take(3): the
\* view adaptors store the range and the lambda and call nothing.
BuildView ==
    /\ lazyPc = "start"
    /\ lazyPc' = "built"
    /\ count' = 0
    /\ UNCHANGED <<lazyIt, lazyChecked, lazyFound>>
    /\ UNCHANGED <<userVars, prodVars, exprVars, fileVars, bufVars, serCall, mainRun>>

\* for (const auto& p : lazy_view), lazy_view.begin(): the counted_iterator
\* over filter_view::begin(), which calls the predicate on the products
\* from the first one up to the first match.
LoopBegin ==
    LET first == FilterFind(products, 1)
        called == [i \in 1 .. (IF first > Len(products) THEN Len(products)
                               ELSE first) |-> i]
    IN  /\ lazyPc = "built"
        /\ lazyPc' = "loop"
        /\ lazyIt' = [current |-> first, length |-> TakeCount]
        /\ lazyChecked' = lazyChecked \o called
        /\ count' = count + Len(called)
        /\ UNCHANGED lazyFound
        /\ UNCHANGED <<userVars, prodVars, exprVars, fileVars, bufVars, serCall, mainRun>>

\* One iteration: it != end (the count left is not 0 and the filter
\* iterator is not at the end), the body prints *it, then ++it advances
\* the filter iterator to the next match, calling the predicate on every
\* product up to it, and decrements the count left.
LoopBody ==
    LET next == FilterFind(products, lazyIt.current + 1)
        last == IF next > Len(products) THEN Len(products) ELSE next
        called == [i \in 1 .. (last - lazyIt.current) |-> lazyIt.current + i]
    IN  /\ lazyPc = "loop"
        /\ lazyIt.length # 0
        /\ lazyIt.current # Len(products) + 1
        /\ lazyFound' = Append(lazyFound, lazyIt.current)
        /\ lazyIt' = [current |-> next, length |-> lazyIt.length - 1]
        /\ lazyChecked' = lazyChecked \o called
        /\ count' = count + Len(called)
        /\ UNCHANGED lazyPc
        /\ UNCHANGED <<userVars, prodVars, exprVars, fileVars, bufVars, serCall, mainRun>>

\* it == end: the loop is left and the totals are printed.
LoopExit ==
    /\ lazyPc = "loop"
    /\ (lazyIt.length = 0 \/ lazyIt.current = Len(products) + 1)
    /\ lazyPc' = "done"
    /\ UNCHANGED <<count, lazyIt, lazyChecked, lazyFound>>
    /\ UNCHANGED <<userVars, prodVars, exprVars, fileVars, bufVars, serCall, mainRun>>

(***************************************************************************)
(* The specifications: one per example, the other examples idle.           *)
(***************************************************************************)

UsersInit == UsersStart /\ ProductsIdle /\ ExprIdle /\ FileIdle /\ BufIdle /\ SerIdle /\ MainIdle /\ LazyIdle

SpecUsers == UsersInit /\ [][UsersNext]_vars

ProductsInit == ProductsStart /\ UsersIdle /\ ExprIdle /\ FileIdle /\ BufIdle /\ SerIdle /\ MainIdle /\ LazyIdle

SpecProducts == ProductsInit /\ [][ProductsNext]_vars

ExprInit == ExprStart /\ UsersIdle /\ ProductsIdle /\ FileIdle /\ BufIdle /\ SerIdle /\ MainIdle /\ LazyIdle

SpecExpr == ExprInit /\ [][ExprNext]_vars

\* Once called, evaluate keeps running: nothing else runs in the program.
SpecExprFair == SpecExpr /\ WF_vars(EvaluateStep)

FileInit == FileStart /\ UsersIdle /\ ProductsIdle /\ ExprIdle /\ BufIdle /\ SerIdle /\ MainIdle /\ LazyIdle

SpecFile == FileInit /\ [][FileNext]_vars

BufInit == BufStart /\ UsersIdle /\ ProductsIdle /\ ExprIdle /\ FileIdle /\ SerIdle /\ MainIdle /\ LazyIdle

SpecBuf == BufInit /\ [][BufNext]_vars

SerInit == SerIdle /\ UsersIdle /\ ProductsIdle /\ ExprIdle /\ FileIdle /\ BufIdle /\ MainIdle /\ LazyIdle

SpecSer == SerInit /\ [][SerializeCall]_vars

MainInit ==
    /\ MainIdle /\ UsersIdle /\ ProductsIdle /\ ExprIdle /\ FileIdle /\ BufIdle
    /\ SerIdle /\ LazyIdle

\* A main that has been started keeps running: it waits for nothing.
SpecMain ==
    /\ MainInit
    /\ [][StartMain \/ RunDemo \/ ReturnMain]_vars
    /\ WF_vars(RunDemo \/ ReturnMain)

\* performance::demo starts from the product list it is given.
LazyInit ==
    /\ LazyIdle /\ ProductsStart /\ UsersIdle /\ ExprIdle /\ FileIdle /\ BufIdle
    /\ SerIdle /\ MainIdle

\* The demo runs on: nothing in it waits.
SpecLazy ==
    /\ LazyInit
    /\ [][BuildView \/ LoopBegin \/ LoopBody \/ LoopExit]_vars
    /\ WF_vars(BuildView \/ LoopBegin \/ LoopBody \/ LoopExit)

---------------------------------------------------------------------------
\* Claims about example 1.

FoundIds == {1, 2, 3}

\* C1: cpp23 findUser(id) returns the error InvalidId iff id <= 0, the error
\* NotFound iff id > 0 and id is none of 1, 2, 3, and otherwise the stored
\* User whose id field equals id; it never returns DatabaseError or
\* PermissionDenied.
C1_FindUser23Contract ==
    lastCall.op = "cpp23.findUser" =>
        LET id == lastCall.id
            r == lastCall.ret
        IN  /\ (~r.has_value /\ r.error = "InvalidId") <=> (id <= 0)
            /\ (~r.has_value /\ r.error = "NotFound")
                   <=> (id > 0 /\ id \notin FoundIds)
            /\ (id > 0 /\ id \in FoundIds) =>
                   /\ r.has_value
                   /\ r.value.id = id
                   /\ r.value = users23[id]
            /\ ~r.has_value => r.error \notin {"DatabaseError", "PermissionDenied"}

\* findUser(0) has been called and has answered InvalidId.
C1_Witness ==
    /\ lastCall.op = "cpp23.findUser"
    /\ lastCall.id = 0
    /\ lastCall.ret = Unexpected("InvalidId")

\* C2: for every id the lookup styles agree: cpp11 findUser succeeds iff
\* getUserPtr is non-null iff cpp17 findUser has a value iff cpp23 findUser
\* has a value; on success all give the same (id, name, email); and cpp11
\* answers InvalidId / UserNotFound exactly when cpp23 answers
\* InvalidId / NotFound.
C2_StylesAgree ==
    \A id \in Ids :
        LET r11 == Cpp11FindUser(users11, id, FALSE, DefaultUser)
            p11 == Cpp11GetUserPtr(users11, id)
            r17 == Cpp17FindUser(users17, id)
            r23 == Cpp23FindUser(users23, id)
        IN  /\ (r11.code = "Success") <=> ~p11.null
            /\ ~p11.null <=> r17.has_value
            /\ r17.has_value <=> r23.has_value
            /\ r23.has_value =>
                   /\ r11.out = users11[p11.key]
                   /\ r11.out = r17.value
                   /\ r17.value = r23.value
            /\ (r11.code = "InvalidId")
                   <=> (~r23.has_value /\ r23.error = "InvalidId")
            /\ (r11.code = "UserNotFound")
                   <=> (~r23.has_value /\ r23.error = "NotFound")

\* The comparison's id 999 has been looked up, and a stored id as well: the
\* styles are compared on a failing and on a succeeding lookup.
C2_Witness ==
    /\ lastCall.op = "cpp17.findUser"
    /\ lastCall.id = 999
    /\ ~lastCall.ret.has_value
    /\ Cpp23FindUser(users23, 999) = Unexpected("NotFound")
    /\ Cpp11FindUser(users11, 2, FALSE, DefaultUser).out = Bob

\* C3: after construction and after any sequence of lookups, each map holds
\* exactly the keys 1, 2, 3, each entry's id equals its key, and no name or
\* email has changed.
C3_MapUnchanged ==
    \A users \in {users11, users17, users23} :
        /\ DOMAIN users = FoundIds
        /\ \A k \in DOMAIN users : users[k].id = k
        /\ users[1] = Alice
        /\ users[2] = Bob
        /\ users[3] = Charlie

\* A lookup of an id that is not stored has been made.
C3_Witness ==
    /\ lastCall.op = "cpp23.findUserWithMessage"
    /\ lastCall.id = 999
    /\ users23 = UserDatabaseCtor

---------------------------------------------------------------------------
\* Claims about example 2.

\* C4: for every product list the cpp11 loop, the cpp17 copy_if + transform
\* chain and the cpp20 filter | transform view produce the same sequence of
\* (name, discounted price) results: same elements, same length, same order.
C4_PipelinesAgree ==
    /\ (result11.done /\ result17.done) => result11.out = result17.out
    /\ (result17.done /\ result20.done) => result17.out = result20.out
    /\ (result11.done /\ result20.done) => result11.out = result20.out

\* All three demos have run on a list with two expensive products and a
\* cheap one between them.
C4_Witness ==
    /\ result11.done /\ result17.done /\ result20.done
    /\ Len(products) = 3
    /\ IsExpensive(products[1])
    /\ ~IsExpensive(products[2])
    /\ IsExpensive(products[3])
    /\ products[1].name # products[3].name
    /\ Len(result20.out) = 2

\* The positions of the products priced strictly above 100.
ExpensivePositions(prods) ==
    {i \in 1 .. Len(prods) : prods[i].price > 10000}

\* The k-th of those positions, in input order.
KthPosition(prods, k) ==
    CHOOSE i \in ExpensivePositions(prods) :
        Cardinality({j \in ExpensivePositions(prods) : j <= i}) = k

\* C5: the result holds exactly one entry per product priced strictly above
\* 100 (a price of exactly 100 is excluded), in input order, each with the
\* product's name and 0.9 times its price; the product list is unchanged; for
\* the fixed ten products the entries are Laptop, Monitor, Desk, Chair.
C5_ExpensiveWithDiscount ==
    \A r \in {result11, result17, result20} :
        r.done =>
            /\ products = r.input
            /\ Len(r.out) = Cardinality(ExpensivePositions(r.input))
            /\ \A k \in 1 .. Len(r.out) :
                   LET p == r.input[KthPosition(r.input, k)] IN
                   /\ r.out[k][1] = p.name
                   \* both sides in hundredths of a cent
                   /\ 10 * r.out[k][3] = 9 * (10 * p.price)
            /\ r.input = getProducts =>
                   [k \in 1 .. Len(r.out) |-> r.out[k][1]]
                       = <<"Laptop", "Monitor", "Desk", "Chair">>

\* The loop has run on a list holding a product priced exactly 100 and one
\* priced above it.
C5_Witness ==
    /\ result11.done
    /\ \E i \in 1 .. Len(products) : products[i].price = 10000
    /\ Len(result11.out) = 1
    /\ Len(products) = 3

---------------------------------------------------------------------------
\* Claims about example 3.

\* The arithmetic value of the tree under e.
RECURSIVE ArithmeticValue(_, _)
ArithmeticValue(h, e) ==
    IF h[e].type = "Number" THEN h[e].number
    ELSE LET l == ArithmeticValue(h, h[e].left)
             r == ArithmeticValue(h, h[e].right)
         IN  IF h[e].type = "Addition" THEN l + r
             ELSE IF h[e].type = "Multiplication" THEN l * r
             ELSE l - r

\* C6: evaluate returns the arithmetic value of the tree: a Number gives its
\* literal, Addition left + right, Multiplication left * right, Subtraction
\* left - right (not right - left); (2 + 3) * 4 gives 20, 5 + 6 gives 11 and
\* (10 - 3) * (2 + 4) gives 42.
C6_EvaluateValue ==
    evPc = "done" =>
        /\ evResult = ArithmeticValue(heap, evRoot)
        /\ (heap = DemoHeap11 /\ evRoot = 5) => evResult = 20
        /\ (heap = DemoHeap17Lambda /\ evRoot = 3) => evResult = 11
        /\ (heap = DemoHeap20 /\ evRoot = 7) => evResult = 42
        /\ ret11.done /\ heap = DemoHeap11 /\ evRoot = 5 => ret11.value = 20
        /\ ret17Lambda.done /\ heap = DemoHeap17Lambda /\ evRoot = 3
               => ret17Lambda.value = 11

\* evaluate has returned 42 for the cpp20 demo's (10 - 3) * (2 + 4).
C6_Witness ==
    /\ evPc = "done"
    /\ heap = DemoHeap20
    /\ evRoot = 7
    /\ evResult = 42

\* C7: on every expression tree of Number, Addition and Multiplication
\* nodes the four evaluators return the same value: cpp11 evaluate, cpp17
\* evaluate, cpp17 evaluate_lambda and cpp20 evaluate.
C7_EvaluatorsAgree ==
    /\ ret11.done => (evPc = "done" /\ ret11.value = evResult)
    /\ ret17.done => (evPc = "done" /\ ret17.value = evResult)
    /\ ret17Lambda.done => (evPc = "done" /\ ret17Lambda.value = evResult)
    /\ (ret11.done /\ ret17.done) => ret11.value = ret17.value
    /\ (ret17.done /\ ret17Lambda.done) => ret17.value = ret17Lambda.value

\* All four evaluators have run on a freely built tree that nests an
\* Addition under a Multiplication.
C7_Witness ==
    /\ evPc = "done"
    /\ ret11.done /\ ret17.done /\ ret17Lambda.done
    /\ heap[evRoot].type = "Multiplication"
    /\ heap[heap[evRoot].left].type = "Addition"
    /\ heap # DemoHeap11

\* The places an Expr object is owned from: an operand slot of another
\* object, or a local variable of the demo.
Owners(e) ==
    {<<p, side>> \in (1 .. Len(heap)) \X {"left", "right"} :
        /\ heap[p].type # "Number"
        /\ (IF side = "left" THEN heap[p].left ELSE heap[p].right) = e}
    \cup (IF e \in locals THEN {<<0, "local">>} ELSE {})

\* Every object has one owner, and operands are built before their parent:
\* no object is shared and none is its own descendant.
UniquelyOwned ==
    \A e \in 1 .. Len(heap) :
        /\ Cardinality(Owners(e)) = 1
        /\ heap[e].type # "Number" => (heap[e].left < e /\ heap[e].right < e)

\* No object has been visited twice, and once evaluate has returned every
\* object of the tree has been visited.
VisitedOnce ==
    /\ \A i, j \in 1 .. Len(evLog) : evLog[i] = evLog[j] => i = j
    /\ evPc = "done" =>
           LET nodes == Reachable(heap, evRoot) IN
           /\ Len(evLog) = Len(nodes)
           /\ {evLog[i] : i \in 1 .. Len(evLog)} = {nodes[i] : i \in 1 .. Len(nodes)}

\* C8: evaluate terminates on every finite tree built through the Expr
\* constructors and visits each node exactly once: every child is uniquely
\* owned by its parent, so no node is reachable by two paths and none is its
\* own descendant.
C8_EvaluateTerminates ==
    /\ [](UniquelyOwned /\ VisitedOnce)
    /\ (evPc = "call") ~> (evPc = "done")

\* evaluate has returned on the seven-node tree of the cpp20 demo after
\* seven visits.
C8_Witness ==
    /\ evPc = "done"
    /\ heap = DemoHeap20
    /\ Len(evLog) = 7

---------------------------------------------------------------------------
\* Claims about example 4.

\* The arguments neither of createProcessor's own checks rejects.
C9_ArgumentsAccepted == fileCall.filename # "" /\ fileCall.size # 0

\* What C9 says of every createProcessor call but its "otherwise" case.
C9_ErrorCases ==
    LET ret == fileCall.ret IN
    /\ (~ret.has_value /\ ret.error = "Filename cannot be empty")
           <=> (fileCall.filename = "")
    /\ (~ret.has_value /\ ret.error = "Size must be greater than 0")
           <=> (fileCall.filename # "" /\ fileCall.size = 0)
    /\ ~ret.has_value =>
           ret.error \notin {"Failed to create: Buffer size must be > 0",
                             "Failed to create: Filename cannot be empty"}

\* C9 as claimed: createProcessor returns "Filename cannot be empty" iff the
\* file name is empty, "Size must be greater than 0" iff the name is not
\* empty and size == 0, and otherwise a processor with getSize() == size;
\* "Failed to create: ..." never comes from the constructor's own checks.
C9_AsClaimed ==
    fileCall.op = "createProcessor" =>
        /\ C9_ErrorCases
        /\ C9_ArgumentsAccepted =>
               (fileCall.ret.has_value /\ getSize(fileCall.ret.value) = fileCall.size)

\* C9, amended: as claimed, except that for accepted arguments the call
\* returns the processor with getSize() == size only when no allocation
\* throws; when one throws it returns the error "Failed to create: "
\* followed by the exception's message.
C9_CreateProcessor ==
    fileCall.op = "createProcessor" =>
        /\ C9_ErrorCases
        /\ (C9_ArgumentsAccepted /\ ~fileCall.alloc_failed) =>
               (fileCall.ret.has_value /\ getSize(fileCall.ret.value) = fileCall.size)
        /\ (C9_ArgumentsAccepted /\ fileCall.alloc_failed) =>
               fileCall.ret = Unexpected("Failed to create: std::bad_alloc")

\* createProcessor was given accepted arguments, the buffer allocation
\* threw, and the call answered with the "Failed to create" error.
C9_Witness ==
    /\ fileCall.op = "createProcessor"
    /\ fileCall.filename = "data.txt"
    /\ fileCall.size = SizeMax
    /\ fileCall.alloc_failed
    /\ fileCall.ret = Unexpected("Failed to create: std::bad_alloc")

\* C10: getSubBuffer(offset, length) either throws out_of_range or returns
\* a span of exactly length elements inside the buffer, offset < size_ and
\* offset + length <= size_ as mathematical integers; it never returns a
\* span reaching past the end, and it throws for offset == size_ even when
\* length == 0.
C10_SubBufferInBounds ==
    fileCall.op = "getSubBuffer" =>
        LET size_ == getSize(processor.object)
            ret == fileCall.ret
        IN  /\ ret.threw => ret.type = "out_of_range"
            /\ ~ret.threw =>
                   /\ ret.size = fileCall.length
                   /\ fileCall.offset < size_
                   /\ fileCall.offset + fileCall.length <= size_
                   /\ ret.first + ret.size <= size_
            /\ fileCall.offset = size_ => ret.threw

\* The arguments the proposed contract's preconditions reject.
C11_ArgumentsRejected == fileCall.size = 0 \/ fileCall.filename = ""

\* What C11 says of a constructor call that returns or throws
\* invalid_argument: the buffer-size message whenever buffer_size == 0, and
\* on a normal return getSize() == buffer_size with a non-empty file name.
C11_MessageAndPost ==
    LET made == fileCall.ret IN
    /\ (made.threw /\ made.type = "invalid_argument" /\ fileCall.size = 0) =>
           made.what = "Buffer size must be > 0"
    /\ (made.threw /\ made.type = "invalid_argument" /\ fileCall.size # 0) =>
           made.what = "Filename cannot be empty"
    /\ ~made.threw =>
           /\ getSize(made.object) = fileCall.size
           /\ made.object.filename_ # ""
           /\ processor = Processor(made.object)

\* C11 as claimed: the cpp23 FileProcessor constructor throws
\* invalid_argument iff buffer_size == 0 or the file name is empty (the
\* buffer-size message when both hold), and whenever it returns normally
\* getSize() == buffer_size and the file name is not empty.
C11_AsClaimed ==
    fileCall.op = "FileProcessor" =>
        /\ (fileCall.ret.threw /\ fileCall.ret.type = "invalid_argument")
               <=> C11_ArgumentsRejected
        /\ C11_MessageAndPost

\* C11, amended: the constructor throws invalid_argument iff buffer_size ==
\* 0 or the file name is empty AND the buffer allocation of the member
\* initialiser did not throw; when that allocation throws, the constructor
\* throws bad_alloc whatever the arguments are. The message and the
\* postcondition are as claimed.
C11_Constructor ==
    fileCall.op = "FileProcessor" =>
        /\ (fileCall.ret.threw /\ fileCall.ret.type = "invalid_argument")
               <=> (C11_ArgumentsRejected /\ ~fileCall.alloc_failed)
        /\ fileCall.alloc_failed => fileCall.ret = BadAlloc
        /\ C11_MessageAndPost

\* The constructor was given buffer_size == 0 and an empty file name, its
\* allocation succeeded, and it threw the buffer-size message.
C11_Witness ==
    /\ fileCall.op = "FileProcessor"
    /\ fileCall.size = 0
    /\ fileCall.filename = ""
    /\ ~fileCall.alloc_failed
    /\ fileCall.ret = Throws("invalid_argument", "Buffer size must be > 0")

---------------------------------------------------------------------------
\* Claims about the buffer of example 4's FileProcessor.

\* The FileProcessor objects constructed so far, alive or destroyed.
C12_Constructed(os) == {o \in os : objects[o] # NoObject}

\* Every cpp11 FileProcessor constructed so far has an array of its own, of
\* size_ chars, not deleted while the object is alive and deleted exactly
\* once when it is destroyed; no two objects hold the same array.
C12_OwnBuffer ==
    /\ \A o \in C12_Constructed(Cpp11Pointers) :
           LET p == objects[o] IN
           /\ p.buffer_ \in 1 .. Len(freeStore)
           /\ freeStore[p.buffer_].size = getSize(p)
           /\ Len(freeStore[p.buffer_].chars) = getSize(p)
           /\ freeStore[p.buffer_].deleted = IF p.state = "alive" THEN 0 ELSE 1
    /\ \A o1, o2 \in C12_Constructed(Pointers) :
           o1 # o2 => objects[o1].buffer_ # objects[o2].buffer_

\* The arrays of the free store other than the array at address a are what
\* they were, and none has appeared or gone.
C12_OthersKept(a) ==
    /\ Len(freeStore') = Len(freeStore)
    /\ \A b \in 1 .. Len(freeStore) : b # a => freeStore'[b] = freeStore[b]

\* What a step on a cpp11 FileProcessor does to the free store: the
\* constructor allocates one array of buffer_size chars or, throwing,
\* none; process() allocates, deletes and resizes nothing and leaves
\* buffer_ and size_ alone; the destructor deletes the object's array once
\* and touches no other.
C12_Step ==
    \A o \in Cpp11Pointers :
        LET p == objects[o] IN
        /\ (p = NoObject /\ objects'[o] # NoObject) =>
               /\ freeStore' = NewCharArray(freeStore, getSize(objects'[o]))
               /\ objects'[o].buffer_ = Len(freeStore')
        /\ (p = NoObject /\ objects'[o] = NoObject /\ procCall'.op = "new"
               /\ procCall'.object = o) =>
               freeStore' = freeStore
        /\ (procCall'.op = "process" /\ procCall'.object = o) =>
               /\ objects' = objects
               /\ C12_OthersKept(p.buffer_)
               /\ freeStore'[p.buffer_].size = freeStore[p.buffer_].size
               /\ freeStore'[p.buffer_].deleted = freeStore[p.buffer_].deleted
        /\ (p.state = "alive" /\ objects'[o].state = "destroyed") =>
               /\ C12_OthersKept(p.buffer_)
               /\ freeStore'[p.buffer_].deleted = 1

\* C12: over construct, process() any number of times, destroy of a cpp11
\* FileProcessor, the buffer is allocated exactly once, at construction,
\* with buffer_size chars; process() never frees, reallocates or resizes
\* it; the destructor frees it exactly once; and no two FileProcessor
\* objects ever refer to the same buffer (no double free, no use after
\* free, no leak).
C12_BufferLifetime == [](C12_OwnBuffer) /\ [][C12_Step]_vars

\* Both cpp11 FileProcessors were constructed, process() filled the first
\* one's two-char buffer, and both have been destroyed.
C12_Witness ==
    /\ objects["processor1_"].state = "destroyed"
    /\ objects["processor2_"].state = "destroyed"
    /\ freeStore[objects["processor1_"].buffer_].chars = FileBytes(MaxBuffer)
    /\ \A a \in 1 .. Len(freeStore) : freeStore[a].deleted = 1

\* C13: process() returns false iff the file named filename_ cannot be
\* opened, and then the buffer contents are unchanged; otherwise it returns
\* true whether the file holds fewer than, exactly, or more than size_
\* bytes, it writes at most size_ bytes into the buffer, and getSize() is
\* the same before and after the call.
C13_Process ==
    procCall.op = "process" =>
        LET p == objects[procCall.object]
            bytes == disk[p.filename_]
            before == procCall.before
            after == freeStore[p.buffer_].chars
        IN  /\ procCall.ret = FALSE <=> bytes = Missing
            /\ procCall.ret = FALSE => after = before
            /\ procCall.ret = TRUE =>
                   /\ DOMAIN after = 1 .. getSize(p)
                   /\ \A i \in 1 .. getSize(p) :
                          after[i] # before[i] => (i <= Len(bytes) /\ after[i] = bytes[i])
            /\ getSize(p) = procCall.size_before
            /\ Len(before) = procCall.size_before

\* process() of the cpp23 FileProcessor returned true on a file longer
\* than its buffer, and the buffer holds the first size_ bytes of the file.
C13_Witness ==
    /\ procCall.op = "process"
    /\ procCall.object = "result"
    /\ procCall.ret = TRUE
    /\ Len(disk["data.txt"]) > getSize(objects["result"])
    /\ disk["data.txt"] # Missing
    /\ getSize(objects["result"]) = MaxBuffer
    /\ freeStore[objects["result"].buffer_].chars = FileBytes(MaxBuffer)

---------------------------------------------------------------------------
\* Claims about example 5.

\* The decimal digits of n >= 0, most significant first, and the text of an
\* int: the digits, after "-" when it is negative.
C14_Digits(n) ==
    LET k == CHOOSE k \in 1 .. 10 : n < 10 ^ k /\ (k = 1 \/ n >= 10 ^ (k - 1))
    IN  [i \in 1 .. k |->
            <<"0", "1", "2", "3", "4", "5", "6", "7", "8", "9">>
                [((n \div (10 ^ (k - i))) % 10) + 1]]

C14_IntText(n) == IF n < 0 THEN <<"-">> \o C14_Digits(-n) ELSE C14_Digits(n)

\* The elements' texts with ", " between neighbours, built from the back.
RECURSIVE C14_Joined(_)
C14_Joined(q) ==
    IF q = <<>> THEN <<>>
    ELSE IF Len(q) = 1 THEN C14_IntText(q[1])
    ELSE C14_Joined(SubSeq(q, 1, Len(q) - 1)) \o <<",", " ">>
             \o C14_IntText(q[Len(q)])

\* C14: cpp17_style::serialize gives, for an integer, its decimal digits;
\* for a std::string s, s inside one pair of double quotes, unescaped; for
\* Person{name, age}, {name: "<name>", age: <age>}; for a vector, its
\* elements' serializations in order joined by ", " inside [ and ], with no
\* leading or trailing separator: n - 1 separators for n >= 1 elements,
\* and "[]" for the empty vector.
C14_Serialize17 ==
    (serCall.style = "cpp17" /\ serCall.value.type # "double") =>
        LET v == serCall.value
            text == serCall.ret.text
        IN  /\ serCall.ret.ok
            /\ v.type = "int" => text = C14_IntText(v.number)
            /\ v.type = "std::string" =>
                   text = <<"\"">> \o v.chars \o <<"\"">>
            /\ v.type = "Person" =>
                   text = <<"{", "n", "a", "m", "e", ":", " ", "\"">> \o v.name
                              \o <<"\"", ",", " ", "a", "g", "e", ":", " ">>
                              \o C14_IntText(v.age) \o <<"}">>
            /\ v.type = "std::vector<int>" =>
                   /\ text = <<"[">> \o C14_Joined(v.value) \o <<"]">>
                   /\ Cardinality({i \in DOMAIN text : text[i] = ","})
                          = IF v.value = <<>> THEN 0 ELSE Len(v.value) - 1
                   /\ text[2] # ","
                   /\ text[Len(text) - 1] \notin {",", " "}
                   /\ v.value = <<>> => text = <<"[", "]">>

\* cpp17 serialize was called on the vector {300, 20, 1} and returned
\* "[300, 20, 1]".
C14_Witness ==
    /\ serCall.style = "cpp17"
    /\ serCall.value = [type |-> "std::vector<int>", value |-> <<300, 20, 1>>]
    /\ serCall.ret = Text(<<"[", "3", "0", "0", ",", " ", "2", "0", ",", " ", "1", "]">>)

\* C15: for every int, std::string, Person and std::vector<int> value the
\* cpp11, cpp17 and cpp20 serialize return the same string; the index-based
\* separator loop and the first-flag separator loop join alike.
C15_SerializersAgree ==
    (serCall.style # "none" /\ serCall.value.type # "double") =>
        /\ serCall.ret.ok
        /\ serCall.ret = Cpp11Serialize(serCall.value)
        /\ serCall.ret = Cpp17Serialize(serCall.value)
        /\ serCall.ret = Cpp20Serialize(serCall.value)

\* The types of the values the demos serialize.
C16_DemoTypes == {"int", "double", "std::string", "Person", "std::vector<int>"}

\* C16: compile-time dispatch is total and unambiguous: in each of the
\* cpp11, cpp17 and cpp20 styles, for each value type the demo serializes
\* (int, double, std::string, Person, std::vector<int>), exactly one
\* serialize overload or branch is applicable, never none and never two
\* equally good candidates.
C16_DispatchTotal ==
    serCall.style # "none" =>
        /\ serCall.value.type \in C16_DemoTypes
        /\ Cardinality(serCall.viable) = 1

---------------------------------------------------------------------------
\* Claims about the main functions.

\* The demo calls of each main, first to last.
C17_Order ==
    [example1 |-> <<"cpp11_style::demo", "cpp17_style::demo",
                    "cpp23_style::demo", "comparison_demo">>,
     example2 |-> <<"cpp11_style::demo", "cpp17_style::demo",
                    "cpp20_style::demo", "cpp23_style::demo",
                    "performance::demo">>,
     example3 |-> <<"cpp11_style::demo", "cpp17_style::demo",
                    "cpp20_style::demo", "cpp26_style::demo",
                    "comparison_demo">>,
     example4 |-> <<"cpp11_style::demo", "cpp14_style::demo",
                    "cpp20_style::demo", "cpp23_style::demo",
                    "exception_safety_demo", "performance_demo">>]

\* The demos completed so far are the first ones of the main's order, and
\* a main that has returned has completed them all and returned 0.
C17_InOrder ==
    mainRun.status # "idle" =>
        LET order == C17_Order[mainRun.example] IN
        /\ Len(mainRun.done) <= Len(order)
        /\ mainRun.done = SubSeq(order, 1, Len(mainRun.done))
        /\ mainRun.status = "returned" =>
               (mainRun.done = order /\ mainRun.code = 0)

---------------------------------------------------------------------------
\* Claims about the lazy view of performance::demo.

\* How many products the loop must yield: take(3) of the matches.
C18_Yielded ==
    IF Cardinality(ExpensivePositions(products)) < 3
    THEN Cardinality(ExpensivePositions(products)) ELSE 3

\* C18: consuming products | filter(price > 100) | take(3) yields exactly
\* the first 3 products with price > 100 in input order and stops after
\* finding the 3rd match: the predicate is evaluated on no product
\* positioned after the third matching product, and at most once on any
\* product.
C18_StopsAfterThirdMatch ==
    lazyPc = "done" =>
        /\ lazyFound = [k \in 1 .. C18_Yielded |-> KthPosition(products, k)]
        /\ C18_Yielded = 3 =>
               \A j \in DOMAIN lazyChecked :
                   lazyChecked[j] <= KthPosition(products, 3)
        /\ \A i, j \in DOMAIN lazyChecked :
               i # j => lazyChecked[i] # lazyChecked[j]

\* C19: building the filter | take(3) view evaluates the predicate zero
\* times (count is 0 until the consuming loop starts), and after the loop
\* of performance::demo, whose list is the ten products of getProducts,
\* the number of products checked is strictly smaller than the number of
\* products in the list.
C19_LazyCount ==
    /\ count = Len(lazyChecked)
    /\ lazyPc \in {"start", "built"} => count = 0
    /\ (lazyPc = "done" /\ products = getProducts) => count < Len(products)

\* The loop over the ten products is done: it printed Laptop, Monitor and
\* Desk, and the predicate was called on the first six products.
C19_Witness ==
    /\ lazyPc = "done"
    /\ products = getProducts
    /\ lazyFound = <<1, 4, 5>>
    /\ lazyChecked = <<1, 2, 3, 4, 5, 6>>
    /\ count = 6

---------------------------------------------------------------------------
\* A claim about the top_electronics pipeline of example 2.

\* The stock values price * stock of the Electronics products of a list.
C20_StockValues(prods) ==
    [i \in {j \in 1 .. Len(prods) : prods[j].category = "Electronics"} |->
        prods[i].price * prods[i].stock]

\* C20: the "top electronics by stock value" pipeline yields the top 3
\* Electronics products by stock value: exactly the 3 products of category
\* Electronics with the largest price * stock, listed from the highest stock
\* value to the lowest.
C20_TopThreeByStockValue ==
    top20.done =>
        LET values == C20_StockValues(top20.input)
            out == top20.out
            n == Cardinality(DOMAIN values)
        IN  /\ Len(out) = IF n < 3 THEN n ELSE 3
            /\ \A k \in 1 .. Len(out) - 1 : out[k][2] >= out[k + 1][2]
            /\ \E chosen \in SUBSET DOMAIN values :
                   /\ Cardinality(chosen) = Len(out)
                   /\ {out[k] : k \in DOMAIN out}
                          = {<<top20.input[i].name, values[i]>> : i \in chosen}
                   /\ \A i \in chosen, j \in DOMAIN values \ chosen :
                          values[i] >= values[j]

---------------------------------------------------------------------------
\* Claims about the out parameter and the error message of example 1.

\* C21: cpp11 findUser(id, out_user) writes *out_user only when it returns
\* Success: when it returns InvalidId or UserNotFound the caller's User is
\* left exactly as it was, and with a null out_user it returns the same code
\* as with a non-null pointer and writes nothing.
C21_OutUserFrame ==
    /\ \A id \in Ids :
           LET given == Cpp11FindUser(users11, id, FALSE, outUser)
               null == Cpp11FindUser(users11, id, TRUE, outUser)
           IN  /\ given.code # "Success" => given.out = outUser
               /\ null.code = given.code
               /\ null.out = outUser
    /\ lastCall.op = "cpp11.findUser" =>
           /\ lastCall.ret # "Success" => outUser = lastCall.before
           /\ lastCall.out_null => outUser = lastCall.before
           /\ (lastCall.ret = "Success" /\ ~lastCall.out_null) =>
                  outUser = users11[lastCall.id]

\* The caller's object held Alice from an earlier successful call, and a
\* failing call given its address has returned: it still holds Alice.
C21_Witness ==
    /\ lastCall.op = "cpp11.findUser"
    /\ lastCall.ret \in {"InvalidId", "UserNotFound"}
    /\ ~lastCall.out_null
    /\ lastCall.before = Alice
    /\ outUser = Alice

\* C22: cpp23 findUserWithMessage(id) transforms only the error: when
\* findUser(id) succeeds it returns the same User, and when findUser(id)
\* fails with error e it returns the string errorMessage(e), so id -5 gives
\* "Invalid user ID" and id 999 gives "User not found"; it never returns
\* "Unknown error".
C22_ErrorTransformed ==
    /\ \A id \in Ids :
           LET found == Cpp23FindUser(users23, id)
               message == Cpp23FindUserWithMessage(users23, id)
           IN  /\ message.has_value = found.has_value
               /\ found.has_value => message.value = found.value
               /\ ~found.has_value =>
                      /\ message.error = errorMessage(found.error)
                      /\ message.error # "Unknown error"
                      /\ found.error = "InvalidId" =>
                             message.error = "Invalid user ID"
                      /\ found.error = "NotFound" =>
                             message.error = "User not found"
    /\ lastCall.op = "cpp23.findUserWithMessage" =>
           /\ lastCall.id = -5 => lastCall.ret = Unexpected("Invalid user ID")
           /\ lastCall.id = 999 => lastCall.ret = Unexpected("User not found")
           /\ lastCall.id \in DOMAIN users23 /\ lastCall.id > 0 =>
                  lastCall.ret = Expected(users23[lastCall.id])
           /\ ~lastCall.ret.has_value =>
                  lastCall.ret.error \in {"Invalid user ID", "User not found"}

\* The demo's call findUserWithMessage(-5) has returned its message.
C22_Witness ==
    /\ lastCall.op = "cpp23.findUserWithMessage"
    /\ lastCall.id = -5
    /\ ~lastCall.ret.has_value
    /\ lastCall.ret.error = "Invalid user ID"

=============================================================================
